---- MODULE Spec2Model ----
(***************************************************************************)
(* NotionFolderIterator.py: a depth-first walk over a local directory tree *)
(* that mirrors it into a remote page tree.  Directories become pages,     *)
(* recognised text files become pages with paragraph blocks (the text cut  *)
(* into chunks and the blocks sent in batches), all other files become     *)
(* pages with one external file block.                                     *)
(*                                                                         *)
(* Representation.  A file or directory NAME is a sequence of one-letter   *)
(* strings.  A TEXT (file content, paragraph content) is kept run-length   *)
(* encoded: a sequence of runs [ch, n], n > 0, adjacent runs of different  *)
(* letters, standing for the string in which every run is ch repeated n    *)
(* times.  Two texts are the same string iff their encodings are equal,    *)
(* and the string operations len, slice and + are computed on the runs.    *)
(* A PATH is the sequence of names from the root folder down.              *)
(***************************************************************************)
EXTENDS Integers, Sequences, FiniteSets, TLC

(***************************************************************************)
(* Bounds of the model.                                                    *)
(***************************************************************************)
MaxEntries == 3
MaxUnvisited == 1
MaxChunkArg == 3
MaxRuns == 2
MaxChunks == 8

(***************************************************************************)
(* Strings                                                                 *)
(***************************************************************************)
\* ord(c) for the letters the model uses
Ord(c) ==
  CASE c = " " -> 32
    [] c = "." -> 46
    [] c = "B" -> 66
    [] c = "C" -> 67
    [] c = "D" -> 68
    [] c = "M" -> 77
    [] c = "W" -> 87
    [] c = "a" -> 97
    [] c = "b" -> 98
    [] c = "c" -> 99
    [] c = "d" -> 100
    [] c = "e" -> 101
    [] c = "f" -> 102
    [] c = "g" -> 103
    [] c = "h" -> 104
    [] c = "i" -> 105
    [] c = "l" -> 108
    [] c = "m" -> 109
    [] c = "n" -> 110
    [] c = "o" -> 111
    [] c = "p" -> 112
    [] c = "q" -> 113
    [] c = "r" -> 114
    [] c = "s" -> 115
    [] c = "t" -> 116
    [] c = "u" -> 117
    [] c = "w" -> 119
    [] c = "x" -> 120
    [] c = "y" -> 121
    [] c = "z" -> 122

\* str.lower() on one letter
LowerChar(c) ==
  CASE c = "B" -> "b"
    [] c = "C" -> "c"
    [] c = "D" -> "d"
    [] c = "M" -> "m"
    [] c = "W" -> "w"
    [] OTHER -> c

\* str.lower()
Lower(s) == [k \in 1..Len(s) |-> LowerChar(s[k])]

\* s < t for Python strings: code point by code point, a proper prefix first
RECURSIVE StrLess(_, _)
StrLess(s, t) ==
  IF t = <<>> THEN FALSE
  ELSE IF s = <<>> THEN TRUE
  ELSE IF Ord(s[1]) # Ord(t[1]) THEN Ord(s[1]) < Ord(t[1])
  ELSE StrLess(Tail(s), Tail(t))

\* faulty variant: no name counts as hidden
NeverHidden(s) == FALSE

\* s.startswith('.')
StartsWithDot(s) == Len(s) > 0 /\ s[1] = "."

\* s.rfind('.'), as a 1-based position, 0 when there is none
RFindDot(s) ==
  LET D == {k \in 1..Len(s) : s[k] = "."}
  IN  IF D = {} THEN 0 ELSE CHOOSE k \in D : \A j \in D : j <= k

\* os.path.splitext(item): the extension starts at the last dot unless only
\* dots come before it
SplitExt(s) ==
  LET dotIndex == RFindDot(s)
  IN  IF dotIndex > 0 /\ \E k \in 1..(dotIndex - 1) : s[k] # "."
      THEN [filename |-> SubSeq(s, 1, dotIndex - 1),
            extension |-> SubSeq(s, dotIndex, Len(s))]
      ELSE [filename |-> s, extension |-> <<>>]

(***************************************************************************)
(* Texts, run-length encoded                                               *)
(***************************************************************************)
\* len(t)
RECURSIVE TLen(_)
TLen(t) == IF t = <<>> THEN 0 ELSE t[1].n + TLen(Tail(t))

\* a + b
TConcat(a, b) ==
  IF a = <<>> THEN b
  ELSE IF b = <<>> THEN a
  ELSE IF a[Len(a)].ch = b[1].ch
       THEN SubSeq(a, 1, Len(a) - 1)
              \o <<[ch |-> b[1].ch, n |-> a[Len(a)].n + b[1].n]>>
              \o Tail(b)
       ELSE a \o b

\* t[lo:hi] for 0 <= lo <= hi (hi may exceed len(t))
RECURSIVE TSliceFrom(_, _, _, _)
TSliceFrom(t, start, lo, hi) ==
  IF t = <<>> THEN <<>>
  ELSE LET from == IF start > lo THEN start ELSE lo
           end  == start + t[1].n
           to   == IF end < hi THEN end ELSE hi
           rest == TSliceFrom(Tail(t), end, lo, hi)
       IN  IF from < to THEN <<[ch |-> t[1].ch, n |-> to - from]>> \o rest
           ELSE rest

TSlice(t, lo, hi) == TSliceFrom(t, 0, lo, hi)

\* the text of a sequence of letters
RECURSIVE ToText(_)
ToText(s) ==
  IF s = <<>> THEN <<>>
  ELSE TConcat(<<[ch |-> s[1], n |-> 1]>>, ToText(Tail(s)))

\* name in text: some slice of the text is the name
Contains(t, s) ==
  LET target == ToText(s)
  IN  \E lo \in 0..(TLen(t) - Len(s)) : TSlice(t, lo, lo + Len(s)) = target

\* the concatenation of a sequence of texts, in order
RECURSIVE Join(_)
Join(ts) == IF ts = <<>> THEN <<>> ELSE TConcat(ts[1], Join(Tail(ts)))

\* every run is non-empty and adjacent runs differ: a text in normal form
WellFormed(t) ==
  /\ \A k \in 1..Len(t) : t[k].n > 0
  /\ \A k \in 1..(Len(t) - 1) : t[k].ch # t[k + 1].ch

(***************************************************************************)
(* append_text_block: chunking and batching                                *)
(***************************************************************************)
chunk_size == 2000
max_blocks_per_request == 50

\* faulty variant: range that stops before a last, partial step
RangeWholeSteps(n, step) == [k \in 1..(n \div step) |-> (k - 1) * step]

\* range(0, n, step) as a sequence
Range(n, step) == [k \in 1..((n + step - 1) \div step) |-> (k - 1) * step]

\* faulty variant: slices that overlap by one character
ChunksOverlapping(text_content, size) ==
  LET starts == Range(TLen(text_content), size)
  IN  [k \in 1..Len(starts) |->
         TSlice(text_content, IF k = 1 THEN 0 ELSE starts[k] - 1, starts[k] + size)]

\* [text_content[i:i+chunk_size] for i in range(0, len(text_content), chunk_size)]
Chunks(text_content, size) ==
  LET starts == Range(TLen(text_content), size)
  IN  [k \in 1..Len(starts) |-> TSlice(text_content, starts[k], starts[k] + size)]

\* the paragraph block built from one chunk
ParagraphBlock(chunk) == [type |-> "paragraph", content |-> chunk]

\* all_blocks
AllBlocks(text_content) ==
  LET chunks == Chunks(text_content, chunk_size)
  IN  [k \in 1..Len(chunks) |-> ParagraphBlock(chunks[k])]

\* faulty variant: a loop that always makes its first round
MoreBatchesAtLeastOnce(all_blocks, i) == i = 0 \/ i < Len(all_blocks)

\* range(0, len(all_blocks), max_blocks_per_request) has an element at i
MoreBatches(all_blocks, i) == i < Len(all_blocks)

\* faulty variant: a slice one block short: all_blocks[i:i+max_blocks_per_request-1]
BatchOneShort(all_blocks, i) ==
  SubSeq(all_blocks, i + 1,
         IF i + max_blocks_per_request - 1 < Len(all_blocks)
         THEN i + max_blocks_per_request - 1 ELSE Len(all_blocks))

\* faulty variant: every round sends the first blocks again
BatchFromStart(all_blocks, i) ==
  SubSeq(all_blocks, 1,
         IF max_blocks_per_request < Len(all_blocks)
         THEN max_blocks_per_request ELSE Len(all_blocks))

\* all_blocks[i:i+max_blocks_per_request]
Batch(all_blocks, i) ==
  SubSeq(all_blocks, i + 1,
         IF i + max_blocks_per_request < Len(all_blocks)
         THEN i + max_blocks_per_request ELSE Len(all_blocks))

(***************************************************************************)
(* The local file system: the inputs of a run                              *)
(*                                                                         *)
(* An entry's attributes go with its name (Catalogue).  A directory is     *)
(*   "ok"          listable,                                               *)
(*   "unreadable"  os.path.isdir is true and os.listdir raises             *)
(*                 (PermissionError),                                      *)
(*   "removed"     a directory when its parent classifies it (line 164)    *)
(*                 and gone when sync_folder_to_notion is entered for it   *)
(*                 (line 150).                                             *)
(* A text file is readable or not (open/read raises), and has a content.   *)
(***************************************************************************)
Run(c, k) == [ch |-> c, n |-> k]

Dir(nm, st)        == [name |-> nm, kind |-> "dir", state |-> st,
                       readable |-> TRUE, content |-> <<>>]
File(nm, rd, text) == [name |-> nm, kind |-> "file", state |-> "ok",
                       readable |-> rd, content |-> text]

Catalogue ==
  { Dir(<<"a">>, "ok"),
    Dir(<<"b", ".", "m", "d">>, "unreadable"),
    Dir(<<"g">>, "removed"),
    Dir(<<".", "h">>, "ok"),
    File(<<"e", ".", "m", "d">>, TRUE, <<>>),
    File(<<"W", ".", "M", "D">>, TRUE,
         <<Run("x", 1), Run("y", chunk_size * max_blocks_per_request - 1),
           Run("z", 1)>>),
    File(<<"r", ".", "c", ".", "d", "o", "c">>, FALSE, <<Run("x", 1)>>),
    File(<<"p", ".", "x">>, TRUE, <<Run("z", 3)>>) }

Names == {e.name : e \in Catalogue}
Attr(nm) == CHOOSE e \in Catalogue : e.name = nm

Last(p) == p[Len(p)]
Parent(p) == SubSeq(p, 1, Len(p) - 1)

\* The directory trees with at most k entries: sets of paths closed under
\* Parent.  Any name may stand in the root folder and in a directory the walk
\* can enter; beneath a directory it cannot enter (hidden, unreadable or
\* removed) stand only a directory and a file, which is enough to see whether
\* the walk reaches them.
Enterable(nm) ==
  Attr(nm).kind = "dir" /\ Attr(nm).state = "ok" /\ ~StartsWithDot(nm)

NamesBeneath(p) ==
  IF p = <<>> \/ Enterable(Last(p)) THEN Names ELSE {<<"a">>, <<"p", ".", "x">>}

Grow(T) ==
  {T \cup {Append(pn[1], pn[2])} :
     pn \in {qn \in ({<<>>} \cup {q \in T : Attr(Last(q)).kind = "dir"}) \X Names :
               qn[2] \in NamesBeneath(qn[1])}}

RECURSIVE Trees(_)
Trees(k) ==
  IF k = 0 THEN {{}}
  ELSE LET S == Trees(k - 1) IN S \cup UNION {Grow(T) : T \in S}

VARIABLES
  token,      \* NOTION_TOKEN is set
  root,       \* the folder of --folder: "ok", "unreadable" or "missing"
  tree,       \* the paths of the entries below the root folder
  pc,         \* where the program is
  stack,      \* the frames of sync_folder_to_notion, innermost last
  cur,        \* the locals of the iteration under way: the text read, then
              \* those of the running append_text_block or append_file_block
  log,        \* the calls made on the Notion client, in order
  console,    \* the error and warning lines logged, and start/completed
  exit_code   \* -1 while running

vars == <<token, root, tree, pc, stack, cur, log, console, exit_code>>

\* --page
root_page_id == 0

(***************************************************************************)
(* os and os.path                                                          *)
(***************************************************************************)
\* os.path.join(folder_path, item)
PathJoin(folder_path, item) == Append(folder_path, item)

\* os.path.basename(file_path)
Basename(file_path) == Last(file_path)

\* os.path.isdir(item_path), line 164
IsDir(p) ==
  IF p = <<>> THEN root # "missing"
  ELSE p \in tree /\ Attr(Last(p)).kind = "dir"

\* os.path.isdir(folder_path), line 150: a removed directory is gone by now
IsDirOnEntry(p) ==
  IF p = <<>> THEN root # "missing"
  ELSE IsDir(p) /\ Attr(Last(p)).state # "removed"

\* os.listdir(folder_path) raises
ListdirRaises(p) ==
  IF p = <<>> THEN root = "unreadable" ELSE Attr(Last(p)).state = "unreadable"

\* the names os.listdir(folder_path) returns, as a set
Children(p) == {Last(q) : q \in {r \in tree : Len(r) = Len(p) + 1 /\ Parent(r) = p}}

\* the orders in which os.listdir may return them
Listings(S) ==
  {s \in [1..Cardinality(S) -> S] : \A x \in S : \E k \in DOMAIN s : s[k] = x}

\* faulty variant: each element goes to the front
InsertFirst(x, s) == <<x>> \o s

\* sorted(): insertion, each element after the last one not greater than it
RECURSIVE Insert(_, _)
Insert(x, s) ==
  IF s = <<>> THEN <<x>>
  ELSE IF StrLess(x, s[1]) THEN <<x>> \o s
  ELSE <<s[1]>> \o Insert(x, Tail(s))

\* faulty variant: the listing as os.listdir returned it
Unsorted(s) == s

RECURSIVE Sorted(_)
Sorted(s) ==
  IF s = <<>> THEN <<>> ELSE Insert(s[Len(s)], Sorted(SubSeq(s, 1, Len(s) - 1)))

\* faulty variant: the extension is compared as it is written
IsTextExtensionAsWritten(extension) ==
  extension \in { <<".", "t", "x", "t">>, <<".", "m", "d">>,
                 <<".", "d", "o", "c">>, <<".", "r", "t", "f">> }

\* extension.lower() in [".txt", ".md", ".doc", ".rtf"]
IsTextExtension(extension) ==
  Lower(extension) \in { <<".", "t", "x", "t">>, <<".", "m", "d">>,
                        <<".", "d", "o", "c">>, <<".", "r", "t", "f">> }

\* f"Could not parse file {item}"
Placeholder(item) ==
  ToText(<<"C", "o", "u", "l", "d", " ", "n", "o", "t", " ", "p", "a", "r", "s", "e",
           " ", "f", "i", "l", "e", " ">> \o item)

\* faulty variant: an unreadable file read as the empty text
ReadFileOrEmpty(item_path) ==
  IF Attr(Last(item_path)).readable THEN Attr(Last(item_path)).content ELSE <<>>

\* what lines 178-184 leave in file_content
ReadFile(item_path) ==
  IF Attr(Last(item_path)).readable THEN Attr(Last(item_path)).content
  ELSE Placeholder(Last(item_path))

\* faulty variant: the url is made of the page title
DummyUrlOfTitle(file_path) ==
  <<"https://example.com/files/">> \o SplitExt(Basename(file_path)).filename

\* f"https://example.com/files/{os.path.basename(file_path)}"
DummyUrl(file_path) == <<"https://example.com/files/">> \o Basename(file_path)

\* the one block append_file_block sends
FileBlock(file_path) == [type |-> "file", url |-> DummyUrl(file_path)]

(***************************************************************************)
(* The Notion client                                                       *)
(***************************************************************************)
\* the id notion.pages.create returns: one no page has yet
NewPageId == 1 + Cardinality({k \in 1..Len(log) : log[k].op = "create" /\ log[k].ok})

\* notion.pages.create(parent, title) for the entry at path; id 0 when it raised
CreateCall(parent_page_id, title, ok, path) ==
  [op |-> "create", parent |-> parent_page_id, title |-> title, ok |-> ok,
   id |-> IF ok THEN NewPageId ELSE 0, children |-> <<>>, entry |-> path]

\* faulty variant: the blocks go to the page passed to main
AppendCallToRootPage(page_id, children, ok, path) ==
  [op |-> "append", parent |-> root_page_id, title |-> <<>>, ok |-> ok,
   id |-> 0, children |-> children, entry |-> path]

\* notion.blocks.children.append(block_id, children), made for the entry at path
AppendCall(page_id, children, ok, path) ==
  [op |-> "append", parent |-> page_id, title |-> <<>>, ok |-> ok,
   id |-> 0, children |-> children, entry |-> path]

Msg(level, what, path) == [level |-> level, what |-> what, path |-> path]

(***************************************************************************)
(* The program                                                             *)
(***************************************************************************)
\* A run that ends before the first listing succeeds (no token, or a root
\* folder that cannot be listed) looks at no entry: its tree is drawn from the
\* trees of at most MaxUnvisited entries.
Init ==
  /\ \/ token = TRUE /\ root = "ok" /\ tree \in Trees(MaxEntries)
     \/ token = TRUE /\ root = "unreadable" /\ tree \in Trees(MaxUnvisited)
     \/ token = FALSE /\ root \in {"ok", "unreadable"} /\ tree \in Trees(MaxUnvisited)
     \/ token \in BOOLEAN /\ root = "missing" /\ tree = {}
  /\ pc = "boot"
  /\ stack = <<>>
  /\ cur = <<>>
  /\ log = <<>>
  /\ console = <<>>
  /\ exit_code = -1

Top == stack[Len(stack)]
Item == Top.items[Top.i]
ItemPath == PathJoin(Top.folder_path, Item)

\* faulty variant: the recursion keeps the page passed to main as parent
FrameUnderRootPage(folder_path, parent_page_id) ==
  [folder_path |-> folder_path, parent_page_id |-> root_page_id,
   items |-> <<>>, i |-> 1]

\* a frame of sync_folder_to_notion(folder_path, parent_page_id)
Frame(folder_path, parent_page_id) ==
  [folder_path |-> folder_path, parent_page_id |-> parent_page_id,
   items |-> <<>>, i |-> 1]

\* faulty variant: the loop stays at its item
NextItemStuck(stk) == stk

\* the for loop of the innermost frame moves on to its next item
NextItem(stk) == [stk EXCEPT ![Len(stk)].i = @ + 1]

\* sync_folder_to_notion returns: to the caller's loop, which moves on (line
\* 173 is the last statement of its iteration), or to main
Returned(stk) ==
  IF Len(stk) = 1 THEN <<>> ELSE NextItem(SubSeq(stk, 1, Len(stk) - 1))

\* lines 24-28: no token, exit(1)
TokenMissing ==
  /\ pc = "boot" /\ ~token
  /\ console' = Append(console, Msg("error", "NOTION_TOKEN not found", <<>>))
  /\ exit_code' = 1
  /\ pc' = "exited"
  /\ UNCHANGED <<token, root, tree, stack, cur, log>>

\* faulty variant: the client is built whether or not there is a token
ClientCreatedUnchecked ==
  /\ pc = "boot"
  /\ pc' = "main"
  /\ UNCHANGED <<token, root, tree, stack, cur, log, console, exit_code>>

\* line 30: the client is built
ClientCreated ==
  /\ pc = "boot" /\ token
  /\ pc' = "main"
  /\ UNCHANGED <<token, root, tree, stack, cur, log, console, exit_code>>

\* lines 215-217: the root folder is no directory, exit(1)
InvalidRoot ==
  /\ pc = "main" /\ ~IsDir(<<>>)
  /\ console' = Append(console, Msg("error", "not a valid directory", <<>>))
  /\ exit_code' = 1
  /\ pc' = "exited"
  /\ UNCHANGED <<token, root, tree, stack, cur, log>>

\* lines 220-221: main calls sync_folder_to_notion(root, page)
StartSync ==
  /\ pc = "main" /\ IsDir(<<>>)
  /\ console' = Append(console, Msg("info", "Starting Notion folder sync.", <<>>))
  /\ stack' = <<Frame(<<>>, root_page_id)>>
  /\ pc' = "enter"
  /\ UNCHANGED <<token, root, tree, cur, log, exit_code>>

\* lines 150-152: the folder is no directory (any more); return
NotADirectory ==
  /\ pc = "enter" /\ ~IsDirOnEntry(Top.folder_path)
  /\ console' = Append(console, Msg("error", "not a valid directory. Skipping.",
                                    Top.folder_path))
  /\ stack' = Returned(stack)
  /\ pc' = IF Len(stack) = 1 THEN "completed" ELSE "loop"
  /\ UNCHANGED <<token, root, tree, cur, log, exit_code>>

\* line 154: os.listdir raises.  No frame catches it (the recursive call of
\* line 173 and the call of line 221 are outside every try), so the exception
\* unwinds every frame and main; the interpreter prints the traceback and the
\* process ends with status 1
ListdirFails ==
  /\ pc = "enter" /\ IsDirOnEntry(Top.folder_path) /\ ListdirRaises(Top.folder_path)
  /\ console' = Append(console, Msg("traceback", "uncaught exception",
                                    Top.folder_path))
  /\ stack' = <<>>
  /\ exit_code' = 1
  /\ pc' = "exited"
  /\ UNCHANGED <<token, root, tree, cur, log>>

\* lines 154-155: items = sorted(os.listdir(folder_path))
ListFolder ==
  /\ pc = "enter" /\ IsDirOnEntry(Top.folder_path) /\ ~ListdirRaises(Top.folder_path)
  /\ \E listing \in Listings(Children(Top.folder_path)) :
       stack' = [stack EXCEPT ![Len(stack)].items = Sorted(listing)]
  /\ pc' = "loop"
  /\ UNCHANGED <<token, root, tree, cur, log, console, exit_code>>

\* line 157: the loop is over, sync_folder_to_notion returns
ReturnFromSync ==
  /\ pc = "loop" /\ Top.i > Len(Top.items)
  /\ stack' = Returned(stack)
  /\ pc' = IF Len(stack) = 1 THEN "completed" ELSE "loop"
  /\ UNCHANGED <<token, root, tree, cur, log, console, exit_code>>

\* lines 159-161: a hidden item is skipped
SkipHidden ==
  /\ pc = "loop" /\ Top.i <= Len(Top.items)
  /\ StartsWithDot(Item)
  /\ stack' = NextItem(stack)
  /\ UNCHANGED <<token, root, tree, pc, cur, log, console, exit_code>>

\* lines 164-173: a subfolder: create its page, recurse unless that raised
ProcessFolder ==
  /\ pc = "loop" /\ Top.i <= Len(Top.items)
  /\ ~StartsWithDot(Item)
  /\ IsDir(ItemPath)
  /\ \E ok \in BOOLEAN :
       LET call == CreateCall(Top.parent_page_id, Item, ok, ItemPath)
       IN  /\ log' = Append(log, call)
           /\ IF ok
              THEN /\ stack' = Append(stack, Frame(ItemPath, call.id))
                   /\ pc' = "enter"
                   /\ console' = console
              ELSE /\ stack' = NextItem(stack)
                   /\ pc' = "loop"
                   /\ console' = console
                        \o <<Msg("error", "error creating page", ItemPath),
                             Msg("warning", "Skipping due to page creation failure",
                                 ItemPath)>>
  /\ UNCHANGED <<token, root, tree, cur, exit_code>>

\* lines 175-184: a text file: read it; if that raises, report it and take
\* the placeholder for its text
ReadTextFile ==
  /\ pc = "loop" /\ Top.i <= Len(Top.items)
  /\ ~StartsWithDot(Item)
  /\ ~IsDir(ItemPath)
  /\ IsTextExtension(SplitExt(Item).extension)
  /\ cur' = [file_content |-> ReadFile(ItemPath)]
  /\ console' = IF Attr(Item).readable THEN console
                ELSE Append(console, Msg("error", "Error reading file", ItemPath))
  /\ pc' = "create_text"
  /\ UNCHANGED <<token, root, tree, stack, log, exit_code>>

\* lines 186-191: create the page of the text file and enter append_text_block
\* unless the creation raised
CreateTextPage ==
  /\ pc = "create_text"
  /\ \E ok \in BOOLEAN :
       LET call == CreateCall(Top.parent_page_id, SplitExt(Item).filename, ok,
                              ItemPath)
       IN  /\ log' = Append(log, call)
           /\ IF ok
              THEN /\ cur' = [page_id |-> call.id,
                              text_content |-> cur.file_content,
                              all_blocks |-> AllBlocks(cur.file_content),
                              i |-> 0]
                   /\ pc' = "append_text"
                   /\ UNCHANGED <<stack, console>>
              ELSE /\ cur' = <<>>
                   /\ pc' = "loop"
                   /\ stack' = NextItem(stack)
                   /\ console' = console
                        \o <<Msg("error", "error creating page", ItemPath),
                             Msg("warning", "Failed to process text file",
                                 ItemPath)>>
  /\ UNCHANGED <<token, root, tree, exit_code>>

\* faulty variant: a failed batch is logged and the loop goes on to the next
AppendBatchKeepsGoing ==
  /\ pc = "append_text" /\ MoreBatches(cur.all_blocks, cur.i)
  /\ \E ok \in BOOLEAN :
       /\ log' = Append(log, AppendCall(cur.page_id, Batch(cur.all_blocks, cur.i),
                                        ok, ItemPath))
       /\ cur' = [cur EXCEPT !.i = @ + max_blocks_per_request]
       /\ console' = IF ok THEN console
                     ELSE Append(console,
                                 Msg("error", "error appending text block", ItemPath))
  /\ UNCHANGED <<token, root, tree, pc, stack, exit_code>>

\* lines 92-97: one round of the batch loop; a failed call raises, which ends
\* append_text_block and the entry (lines 99-104, 189-191)
AppendBatch ==
  /\ pc = "append_text" /\ MoreBatches(cur.all_blocks, cur.i)
  /\ \E ok \in BOOLEAN :
       /\ log' = Append(log, AppendCall(cur.page_id, Batch(cur.all_blocks, cur.i),
                                        ok, ItemPath))
       /\ IF ok
          THEN /\ cur' = [cur EXCEPT !.i = @ + max_blocks_per_request]
               /\ UNCHANGED <<pc, stack, console>>
          ELSE /\ cur' = <<>>
               /\ pc' = "loop"
               /\ stack' = NextItem(stack)
               /\ console' = console
                    \o <<Msg("error", "error appending text block", ItemPath),
                         Msg("warning", "Failed to process text file", ItemPath)>>
  /\ UNCHANGED <<token, root, tree, exit_code>>

\* line 98: the batch loop is over, append_text_block returns
AppendTextDone ==
  /\ pc = "append_text" /\ ~MoreBatches(cur.all_blocks, cur.i)
  /\ cur' = <<>>
  /\ pc' = "loop"
  /\ stack' = NextItem(stack)
  /\ UNCHANGED <<token, root, tree, log, console, exit_code>>

\* lines 193-194, 196-198: any other file: create its page and enter
\* append_file_block unless the creation raised
ProcessOtherFile ==
  /\ pc = "loop" /\ Top.i <= Len(Top.items)
  /\ ~StartsWithDot(Item)
  /\ ~IsDir(ItemPath)
  /\ ~IsTextExtension(SplitExt(Item).extension)
  /\ \E ok \in BOOLEAN :
       LET call == CreateCall(Top.parent_page_id, SplitExt(Item).filename, ok,
                              ItemPath)
       IN  /\ log' = Append(log, call)
           /\ IF ok
              THEN /\ cur' = [page_id |-> call.id, file_path |-> ItemPath]
                   /\ pc' = "append_file"
                   /\ UNCHANGED <<stack, console>>
              ELSE /\ cur' = cur
                   /\ pc' = "loop"
                   /\ stack' = NextItem(stack)
                   /\ console' = console
                        \o <<Msg("error", "error creating page", ItemPath),
                             Msg("warning", "Failed to process file", ItemPath)>>
  /\ UNCHANGED <<token, root, tree, exit_code>>

\* append_file_block, lines 106-137, and lines 196-198: the one call with the
\* one file block; if it raises that is reported and the loop moves on
AppendFileBlock ==
  /\ pc = "append_file"
  /\ \E ok \in BOOLEAN :
       /\ log' = Append(log, AppendCall(cur.page_id, <<FileBlock(cur.file_path)>>,
                                        ok, ItemPath))
       /\ console' =
            IF ok THEN console
            ELSE console
                   \o <<Msg("error", "error appending file block", ItemPath),
                        Msg("warning", "Failed to process file", ItemPath)>>
  /\ cur' = <<>>
  /\ pc' = "loop"
  /\ stack' = NextItem(stack)
  /\ UNCHANGED <<token, root, tree, exit_code>>

\* line 222 and the end of the script: "Sync completed.", status 0
SyncCompleted ==
  /\ pc = "completed"
  /\ console' = Append(console, Msg("info", "Sync completed.", <<>>))
  /\ exit_code' = 0
  /\ pc' = "exited"
  /\ UNCHANGED <<token, root, tree, stack, cur, log>>

Next ==
  \/ TokenMissing
  \/ ClientCreated
  \/ InvalidRoot
  \/ StartSync
  \/ NotADirectory
  \/ ListdirFails
  \/ ListFolder
  \/ ReturnFromSync
  \/ SkipHidden
  \/ ProcessFolder
  \/ ReadTextFile
  \/ CreateTextPage
  \/ AppendBatch
  \/ AppendTextDone
  \/ ProcessOtherFile
  \/ AppendFileBlock
  \/ SyncCompleted

Spec == Init /\ [][Next]_vars

(***************************************************************************)
(* The chunking of line 71 on its own: a text and a chunk length are drawn, *)
(* and the comprehension is applied to them.  cur holds the three.          *)
(***************************************************************************)
RunLens == {1, 2, 3, chunk_size - 1, chunk_size, chunk_size + 1}

\* the texts of at most k runs over the letters x and y
RECURSIVE TextsUpTo(_)
TextsUpTo(k) ==
  IF k = 0 THEN {<<>>}
  ELSE LET S == TextsUpTo(k - 1)
       IN  S \cup {Append(t, Run(c, n)) :
                     t \in {u \in S : Len(u) = k - 1}, c \in {"x", "y"}, n \in RunLens}

Texts == {t \in TextsUpTo(MaxRuns) : WellFormed(t)}

ChunkLengths == (1..MaxChunkArg) \cup {chunk_size}

\* the texts and chunk lengths that give at most MaxChunks chunks
ChunkInputs == {inp \in Texts \X ChunkLengths : TLen(inp[1]) <= MaxChunks * inp[2]}

InitChunk ==
  /\ token = TRUE
  /\ root = "ok"
  /\ tree = {}
  /\ pc = "chunk"
  /\ stack = <<>>
  /\ cur \in {[text_content |-> inp[1], size |-> inp[2], chunks |-> <<>>] :
                inp \in ChunkInputs}
  /\ log = <<>>
  /\ console = <<>>
  /\ exit_code = -1

\* line 71
ChunkText ==
  /\ pc = "chunk"
  /\ cur' = [cur EXCEPT !.chunks = Chunks(cur.text_content, cur.size)]
  /\ pc' = "chunked"
  /\ UNCHANGED <<token, root, tree, stack, log, console, exit_code>>

NextChunk == ChunkText

SpecChunk == InitChunk /\ [][NextChunk]_vars

(***************************************************************************)
(* Properties of the chunking (SpecChunk)                                  *)
(***************************************************************************)
\* the sum of the lengths of the first k texts of ts
RECURSIVE LenBefore(_, _)
LenBefore(ts, k) == IF k = 0 THEN 0 ELSE LenBefore(ts, k - 1) + TLen(ts[k])

\* ceil(n / d), by its definition: the least c with c * d >= n
Ceil(n, d) == CHOOSE c \in 0..n : c * d >= n /\ \A b \in 0..(c - 1) : b * d < n

\* C7: chunk round-trip.  Once a text has been chunked, the concatenation of
\* the chunks in order is the text, and the chunks are consecutive and do not
\* overlap: chunk k is the slice of the text that starts where the chunks
\* before it end and has the chunk's own length.
C7_ChunkRoundTrip ==
  pc = "chunked" =>
    /\ Join(cur.chunks) = cur.text_content
    /\ \A k \in 1..Len(cur.chunks) :
         LET off == LenBefore(cur.chunks, k - 1)
         IN  cur.chunks[k] = TSlice(cur.text_content, off, off + TLen(cur.chunks[k]))

\* a text of more than two chunks of the program's chunk length has been chunked
C7_Witness ==
  /\ pc = "chunked"
  /\ cur.size = chunk_size
  /\ Len(cur.chunks) >= 3
  /\ Join(cur.chunks) = cur.text_content

\* C8: chunk bound and count.  Every chunk has between 1 and L characters,
\* only the last chunk may have fewer than L, and there are ceil(len(T)/L)
\* chunks: none for the empty text.
C8_ChunkBoundAndCount ==
  pc = "chunked" =>
    /\ \A k \in 1..Len(cur.chunks) :
         /\ TLen(cur.chunks[k]) >= 1
         /\ TLen(cur.chunks[k]) <= cur.size
         /\ k < Len(cur.chunks) => TLen(cur.chunks[k]) = cur.size
    /\ Len(cur.chunks) = Ceil(TLen(cur.text_content), cur.size)
    /\ cur.text_content = <<>> => cur.chunks = <<>>

\* a text whose last chunk is shorter than the others has been chunked
C8_Witness ==
  /\ pc = "chunked"
  /\ Len(cur.chunks) >= 2
  /\ TLen(cur.chunks[Len(cur.chunks)]) < cur.size
  /\ TLen(cur.chunks[1]) = cur.size

(***************************************************************************)
(* Properties of the traversal (Spec)                                      *)
(***************************************************************************)
\* q lies beneath p
Beneath(p, q) == Len(q) > Len(p) /\ SubSeq(q, 1, Len(p)) = p

Hidden(q) == StartsWithDot(Last(q))

IsCreate(k) == log[k].op = "create"
IsAppend(k) == log[k].op = "append"

\* a create call was issued for the entry q
HasCreate(q) == \E k \in 1..Len(log) : IsCreate(k) /\ log[k].entry = q

\* the create call for the entry q returned an id
CreatedOk(q) == \E k \in 1..Len(log) : IsCreate(k) /\ log[k].entry = q /\ log[k].ok

\* q is a file the classification of line 177 takes for a text file
IsTextFile(q) ==
  /\ q \in tree
  /\ Attr(Last(q)).kind = "file"
  /\ \E ext \in { <<".", "t", "x", "t">>, <<".", "m", "d">>, <<".", "d", "o", "c">>,
                 <<".", "r", "t", "f">> } :
       /\ Len(Last(q)) > Len(ext)
       /\ Lower(SubSeq(Last(q), Len(Last(q)) - Len(ext) + 1, Len(Last(q)))) = ext

\* title is name without its extension: name is title followed by a dot and
\* letters that are not dots
ExtensionStripped(title, name) ==
  /\ Len(title) < Len(name)
  /\ SubSeq(name, 1, Len(title)) = title
  /\ name[Len(title) + 1] = "."
  /\ \A k \in (Len(title) + 2)..Len(name) : name[k] # "."

\* the paths at which the listing of a directory failed, as reported
ListingFailedAt ==
  {console[m].path : m \in {n \in 1..Len(console) :
      console[n].what \in {"uncaught exception", "not a valid directory. Skipping."}}}

\* C1: failure isolation for containers.  When the run has ended, for every
\* directory X whose create call failed no call was made for an entry beneath
\* X, and a create call was made for every non-hidden sibling of X that sorts
\* after X.
C1_ContainerFailureIsolated ==
  pc = "exited" =>
    \A k \in 1..Len(log) :
      (IsCreate(k) /\ ~log[k].ok /\ IsDir(log[k].entry)) =>
        LET X == log[k].entry
        IN  /\ \A j \in 1..Len(log) : ~Beneath(X, log[j].entry)
            /\ \A Y \in tree :
                 (Len(Y) = Len(X) /\ Parent(Y) = Parent(X) /\ ~Hidden(Y)
                    /\ StrLess(Last(X), Last(Y))) => HasCreate(Y)

\* C2: listing failure is isolated.  When the run has ended, for every
\* directory D whose listing failed no create call was made for an entry of D,
\* and at every enclosing level a create call was made for every non-hidden
\* entry that sorts after the ancestor of D (or D itself) at that level.
C2_ListingFailureIsolated ==
  pc = "exited" =>
    \A D \in ListingFailedAt :
      /\ \A j \in 1..Len(log) : ~Beneath(D, log[j].entry)
      /\ \A Y \in tree :
           (Len(Y) <= Len(D) /\ Parent(Y) = SubSeq(D, 1, Len(Y) - 1) /\ ~Hidden(Y)
              /\ StrLess(D[Len(Y)], Last(Y))) => HasCreate(Y)

\* C3: degrade, not abort.  For every text file whose reading failed the
\* program is about to make the create call for that file, holding a text that
\* is not empty and contains the file's name, or there is a create call with
\* the name less its extension as title; if that call returned a page, the
\* next call is an append to that page of exactly one paragraph block, whose
\* content is not empty and contains the file's name (in the one state between
\* the two calls append_text_block is running for that page).
C3_DegradeNotAbort ==
  \A m \in 1..Len(console) :
    console[m].what = "Error reading file" =>
      LET q == console[m].path
      IN  \/ /\ pc = "create_text" /\ ItemPath = q
             /\ cur.file_content # <<>>
             /\ Contains(cur.file_content, Last(q))
             /\ ~HasCreate(q)
          \/ \E k \in 1..Len(log) :
            /\ IsCreate(k) /\ log[k].entry = q
            /\ ExtensionStripped(log[k].title, Last(q))
            /\ log[k].ok =>
                 IF k = Len(log)
                 THEN pc = "append_text" /\ cur.page_id = log[k].id
                 ELSE /\ IsAppend(k + 1)
                      /\ log[k + 1].parent = log[k].id
                      /\ Len(log[k + 1].children) = 1
                      /\ log[k + 1].children[1].type = "paragraph"
                      /\ log[k + 1].children[1].content # <<>>
                      /\ Contains(log[k + 1].children[1].content, Last(q))

\* an unreadable text file got its page and the placeholder was appended to it
C3_Witness ==
  \E k \in 1..(Len(log) - 1) :
    /\ IsCreate(k) /\ log[k].ok
    /\ log[k].entry \in tree /\ ~Attr(Last(log[k].entry)).readable
    /\ IsAppend(k + 1) /\ log[k + 1].ok /\ log[k + 1].parent = log[k].id
    /\ log[k + 1].children = <<ParagraphBlock(Placeholder(Last(log[k].entry)))>>

\* C4: exit status.  With the credential present and the root folder a
\* directory the run ends with status 0, and status 1 is only for an invalid
\* root folder or an absent credential.
C4_ExitStatus ==
  pc = "exited" =>
    /\ (token /\ root # "missing") => exit_code = 0
    /\ exit_code = 1 => (~token \/ root = "missing")

\* C5: fatal configuration errors precede all remote activity.  Without the
\* credential, or with a root folder that is no directory, no call is ever
\* made on the client and the run ends with a status other than 0.
C5_FatalBeforeRemote ==
  (~token \/ root = "missing") =>
    /\ log = <<>>
    /\ stack = <<>>
    /\ pc \notin {"completed"}
    /\ pc = "exited" => exit_code = 1

\* a run without the credential has ended, over a folder with a visible entry
C5_Witness ==
  /\ pc = "exited" /\ exit_code = 1 /\ ~token
  /\ \E q \in tree : Len(q) = 1 /\ ~Hidden(q)

\* the names of S in ascending order: the least first, then the others
RECURSIVE Canon(_)
Canon(S) ==
  IF S = {} THEN <<>>
  ELSE LET least == CHOOSE x \in S : \A y \in S \ {x} : StrLess(x, y)
       IN  <<least>> \o Canon(S \ {least})

Visible(p) == {nm \in Children(p) : ~StartsWithDot(nm)}

\* the entries for which a run with the outcomes recorded so far issues a
\* create call, in order: a function of the tree and of the outcomes only
RECURSIVE Expected(_)
Expected(p) ==
  LET names == Canon(Visible(p))
      upto[k \in 0..Len(names)] ==
        IF k = 0 THEN <<>>
        ELSE LET q == Append(p, names[k])
             IN  upto[k - 1] \o <<q>>
                   \o (IF Attr(names[k]).kind = "dir" /\ Attr(names[k]).state = "ok"
                          /\ CreatedOk(q)
                       THEN Expected(q) ELSE <<>>)
  IN  upto[Len(names)]

ExpectedTitle(q) ==
  IF Attr(Last(q)).kind = "dir" THEN Last(q) ELSE SplitExt(Last(q)).filename

\* the create calls made so far, in order
CreateCalls ==
  LET Test(r) == r.op = "create" IN SelectSeq(log, Test)

\* C6: traversal determinism.  The sequence of create calls (entry and title)
\* is determined by the directory tree and the outcomes of the calls: it is at
\* every moment a prefix of the sequence Expected, which does not depend on
\* the order of any listing, and it is all of it when the run completes.
C6_TraversalDeterminism ==
  LET exp == Expected(<<>>)
  IN  /\ Len(CreateCalls) <= Len(exp)
      /\ \A k \in 1..Len(CreateCalls) :
           /\ CreateCalls[k].entry = exp[k]
           /\ CreateCalls[k].title = ExpectedTitle(exp[k])
      /\ (pc = "exited" /\ exit_code = 0) => Len(CreateCalls) = Len(exp)

\* a run has completed with three create calls, two of them in one folder
C6_Witness ==
  /\ pc = "exited" /\ exit_code = 0
  /\ Len(CreateCalls) = 3
  /\ Parent(CreateCalls[2].entry) = Parent(CreateCalls[3].entry)

\* the append calls made for the entry q, in order
AppendsFor(q) ==
  LET Test(r) == r.op = "append" /\ r.entry = q IN SelectSeq(log, Test)

RECURSIVE Flatten(_)
Flatten(ss) == IF ss = <<>> THEN <<>> ELSE ss[1] \o Flatten(Tail(ss))

\* the entry q has been dealt with: its create call was made and the loop has
\* moved on
Finished(q) ==
  HasCreate(q) /\ ~(pc \in {"append_text", "append_file"} /\ ItemPath = q)

\* C9: batch partition.  For every text file that has been dealt with, whose
\* page was created and none of whose append calls failed: with n the number
\* of its blocks there are ceil(n/50) append calls, each of at most 50 blocks,
\* and the batches in call order make up the block sequence.
C9_BatchPartition ==
  \A q \in tree :
    (IsTextFile(q) /\ CreatedOk(q) /\ Finished(q)
       /\ \A k \in 1..Len(AppendsFor(q)) : AppendsFor(q)[k].ok) =>
      LET blocks == AllBlocks(ReadFile(q))
          calls  == AppendsFor(q)
      IN  /\ Len(calls) = Ceil(Len(blocks), max_blocks_per_request)
          /\ \A k \in 1..Len(calls) :
               Len(calls[k].children) <= max_blocks_per_request
          /\ Flatten([k \in 1..Len(calls) |-> calls[k].children]) = blocks

\* a text of 51 blocks went out in two calls, of 50 blocks and of one
C9_Witness ==
  \E q \in tree :
    /\ IsTextFile(q) /\ Finished(q)
    /\ Len(AppendsFor(q)) = 2
    /\ AppendsFor(q)[1].ok /\ AppendsFor(q)[2].ok
    /\ Len(AppendsFor(q)[1].children) = max_blocks_per_request
    /\ Len(AppendsFor(q)[2].children) = 1

\* C10: no empty remote write.  No append call carries zero blocks, and no
\* append call at all is made for a text file whose content is empty.
C10_NoEmptyAppend ==
  /\ \A k \in 1..Len(log) : IsAppend(k) => Len(log[k].children) >= 1
  /\ \A q \in tree :
       (IsTextFile(q) /\ Attr(Last(q)).readable /\ Attr(Last(q)).content = <<>>) =>
         AppendsFor(q) = <<>>

\* the page of an empty text file was created and the run has ended
C10_Witness ==
  /\ pc = "exited" /\ exit_code = 0
  /\ \E q \in tree :
       /\ IsTextFile(q) /\ Attr(Last(q)).readable /\ Attr(Last(q)).content = <<>>
       /\ CreatedOk(q)
       /\ AppendsFor(q) = <<>>
\* the visible entries of the folder of q that sort after q
LaterSiblings(q) ==
  {s \in tree : Len(s) = Len(q) /\ Parent(s) = Parent(q) /\ ~Hidden(s)
                  /\ StrLess(Last(q), Last(s))}

\* the first of them
NextSibling(q) ==
  CHOOSE s \in LaterSiblings(q) :
    \A t \in LaterSiblings(q) \ {s} : StrLess(Last(s), Last(t))

\* the call after call j, if there is one, is the create call of the next
\* visible sibling of the entry of call j, if there is one; and when the run
\* has ended that sibling has its create call
MovesOnAfter(j) ==
  LET q == log[j].entry
  IN  LaterSiblings(q) # {} =>
        /\ j < Len(log) => (IsCreate(j + 1) /\ log[j + 1].entry = NextSibling(q))
        /\ pc = "exited" => HasCreate(NextSibling(q))

\* C11: a batch failure aborts the entry only.  After a failed append call
\* for a text file no further call is made for that file (no later batch, no
\* second sending of the failed one), and the traversal goes on with the next
\* sibling: the next call made is that sibling's create call.
C11_BatchFailureAbortsEntry ==
  \A j \in 1..Len(log) :
    (IsAppend(j) /\ ~log[j].ok /\ IsTextFile(log[j].entry)) =>
      /\ \A m \in (j + 1)..Len(log) : log[m].entry # log[j].entry
      /\ pc = "append_text" => ItemPath # log[j].entry
      /\ MovesOnAfter(j)

\* the first of two batches failed and the next sibling got its create call
C11_Witness ==
  \E j \in 1..(Len(log) - 1) :
    /\ IsAppend(j) /\ ~log[j].ok
    /\ Len(log[j].children) = max_blocks_per_request
    /\ IsCreate(j + 1) /\ log[j + 1].entry \in LaterSiblings(log[j].entry)

\* the texts ts[lo], ..., ts[hi] put together, by halves
RECURSIVE JoinRange(_, _, _)
JoinRange(ts, lo, hi) ==
  IF lo > hi THEN <<>>
  ELSE IF lo = hi THEN ts[lo]
  ELSE LET mid == (lo + hi) \div 2
       IN  TConcat(JoinRange(ts, lo, mid), JoinRange(ts, mid + 1, hi))

\* C12: prefix invariant of the remote content.  In every state the blocks
\* appended to the page of a text file are paragraph blocks whose contents are
\* the first chunks of the text read (the file's text or the placeholder):
\* block k is the text from (k-1)*2000 up to k*2000, so the contents together
\* are the text up to that chunk boundary; once the entry is done with no append
\* failed they are the whole text.
C12_RemoteContentIsPrefix ==
  \A q \in tree :
    (IsTextFile(q) /\ CreatedOk(q)) =>
      LET calls  == AppendsFor(q)
          Ok(r)  == r.ok
          okcalls == SelectSeq(calls, Ok)
          blocks == Flatten([k \in 1..Len(okcalls) |-> okcalls[k].children])
          text   == ReadFile(q)
          page   == JoinRange([k \in 1..Len(blocks) |-> blocks[k].content],
                              1, Len(blocks))
      IN  /\ \A k \in 1..Len(blocks) :
               /\ blocks[k].type = "paragraph"
               /\ blocks[k].content # <<>>
               /\ blocks[k].content =
                    TSlice(text, (k - 1) * chunk_size, k * chunk_size)
          /\ page = TSlice(text, 0, Len(blocks) * chunk_size)
          /\ (Finished(q) /\ Len(okcalls) = Len(calls)) => page = text

\* the first batch of a text of two batches is on the page, the second failed
C12_Witness ==
  \E q \in tree :
    /\ IsTextFile(q) /\ Finished(q)
    /\ Len(AppendsFor(q)) = 2
    /\ AppendsFor(q)[1].ok /\ ~AppendsFor(q)[2].ok
    /\ Len(AppendsFor(q)[1].children) = max_blocks_per_request

\* C13: parent before child.  The create call for an entry of the root folder
\* has the page passed to main as parent; the create call for an entry of a
\* directory D comes after a successful create call for D and has the id that
\* call returned as parent.
C13_ParentBeforeChild ==
  \A k \in 1..Len(log) :
    IsCreate(k) =>
      IF Len(log[k].entry) = 1 THEN log[k].parent = root_page_id
      ELSE \E j \in 1..(k - 1) :
             /\ IsCreate(j) /\ log[j].ok
             /\ log[j].entry = Parent(log[k].entry)
             /\ log[k].parent = log[j].id

\* an entry two directories down was created under its directory's page
C13_Witness ==
  \E k \in 1..Len(log) :
    /\ IsCreate(k) /\ log[k].ok /\ Len(log[k].entry) = 3
    /\ \E j \in 1..(k - 1) :
         IsCreate(j) /\ log[j].entry = Parent(log[k].entry) /\ log[k].parent = log[j].id
\* C14: depth-first sibling order.  Whenever two calls were made for entries
\* that lie in or beneath two different entries a and b of one folder, and the
\* name of a is less than the name of b, the call in a's subtree was made
\* first: all of a's subtree is dealt with before the first call for b.
C14_DepthFirstSiblingOrder ==
  \A i, j \in 1..Len(log) :
    LET x == log[i].entry
        y == log[j].entry
    IN  \A n \in 1..Len(x) :
          (/\ n <= Len(y)
           /\ SubSeq(x, 1, n - 1) = SubSeq(y, 1, n - 1)
           /\ StrLess(x[n], y[n])) => i < j

\* calls for a directory, for an entry in it and then for a later sibling of
\* the directory
C14_Witness ==
  \E i, j, k \in 1..Len(log) :
    /\ i < j /\ j < k
    /\ Len(log[i].entry) = 1
    /\ Beneath(log[i].entry, log[j].entry)
    /\ Len(log[k].entry) = 1
    /\ StrLess(log[i].entry[1], log[k].entry[1])

\* C15: hidden entries are excluded.  No call is made for an entry whose name
\* begins with a dot nor for anything beneath such an entry: no component of
\* the path of a call's entry begins with a dot.
C15_HiddenExcluded ==
  \A k \in 1..Len(log) :
    \A n \in 1..Len(log[k].entry) : log[k].entry[n][1] # "."

\* a run over a tree with an entry beneath a hidden directory and an entry
\* listed after the hidden one has ended with calls made
C15_Witness ==
  /\ pc = "exited" /\ log # <<>>
  /\ \E h, q \in tree : Len(h) = 1 /\ h[1][1] = "." /\ Beneath(h, q)

\* C16: no retry, no revisit.  At most one create call is made for an entry,
\* whether it succeeds or fails, and no entry is dealt with a second time:
\* the calls for one entry are its create call followed by append calls, with
\* no call for another entry in between.
C16_NoRetryNoRevisit ==
  \A i, k \in 1..Len(log) :
    (i < k /\ log[i].entry = log[k].entry) =>
      /\ IsAppend(k)
      /\ \A j \in i..k : log[j].entry = log[i].entry

\* a create call failed, calls for other entries followed and the run ended
C16_Witness ==
  /\ pc = "exited"
  /\ \E i \in 1..(Len(log) - 1) :
       /\ IsCreate(i) /\ ~log[i].ok
       /\ \A k \in (i + 1)..Len(log) : log[k].entry # log[i].entry
IsFile(q) == q \in tree /\ Attr(Last(q)).kind = "file"

IsDirectory(q) == q \in tree /\ Attr(Last(q)).kind = "dir"

\* C17: classification.  A directory is a container: its page has its full
\* name as title and no append call is made for it or to its page.  A file
\* whose extension is, whatever its case, .txt, .md, .doc or .rtf is a text
\* leaf: its title is the name without the extension and only paragraph
\* blocks are appended.  Every other file is an opaque leaf: what is appended
\* is a file block only.
C17_Classification ==
  \A k \in 1..Len(log) :
    LET q == log[k].entry
    IN  /\ IsDirectory(q) =>
             /\ IsCreate(k) /\ log[k].title = Last(q)
             /\ \A j \in 1..Len(log) :
                  IsAppend(j) => (log[k].ok => log[j].parent # log[k].id)
        /\ (IsFile(q) /\ IsCreate(k)) => ExtensionStripped(log[k].title, Last(q))
        /\ IsAppend(k) =>
             LET type == IF IsTextFile(q) THEN "paragraph" ELSE "file"
             IN  /\ IsFile(q)
                 /\ log[k].children # <<>>
                 /\ \A b \in 1..Len(log[k].children) :
                      log[k].children[b].type = type

\* a directory was created, paragraphs were appended for a file with an
\* upper-case extension and a file block for a file of another kind
C17_Witness ==
  /\ \E k \in 1..Len(log) : IsDirectory(log[k].entry) /\ log[k].ok
  /\ \E k \in 1..Len(log) :
       /\ IsAppend(k) /\ log[k].children[1].type = "paragraph"
       /\ \E n \in 1..Len(Last(log[k].entry)) : Last(log[k].entry)[n] = "D"
  /\ \E k \in 1..Len(log) : IsAppend(k) /\ log[k].children[1].type = "file"

\* q is a file that is not taken for a text file
IsOpaqueFile(q) == IsFile(q) /\ ~IsTextFile(q)

\* C18: opaque leaf.  After a successful create call for an opaque file the
\* program is in append_file_block for the new page, with no call made since,
\* or the next call is one append call to the new page with exactly one block,
\* a file block whose url is https://example.com/files/ followed by the file's
\* base name; no other append call is made for the file, also when that one
\* fails, and the traversal goes on with the next sibling.
C18_OpaqueLeaf ==
  \A k \in 1..Len(log) :
    (IsCreate(k) /\ log[k].ok /\ IsOpaqueFile(log[k].entry)) =>
      \/ /\ k = Len(log)
         /\ pc = "append_file" /\ ItemPath = log[k].entry
         /\ cur.page_id = log[k].id
      \/ /\ k < Len(log)
         /\ pc = "append_file" => ItemPath # log[k].entry
         /\ IsAppend(k + 1)
         /\ log[k + 1].entry = log[k].entry
         /\ log[k + 1].parent = log[k].id
         /\ log[k + 1].children =
              <<[type |-> "file",
                 url |-> <<"https://example.com/files/">> \o Last(log[k].entry)]>>
         /\ Len(AppendsFor(log[k].entry)) = 1
         /\ MovesOnAfter(k + 1)

\* the append call for an opaque file failed and the next sibling got its
\* create call
C18_Witness ==
  \E k \in 1..(Len(log) - 1) :
    /\ IsAppend(k) /\ ~log[k].ok /\ IsOpaqueFile(log[k].entry)
    /\ IsCreate(k + 1) /\ log[k + 1].entry \in LaterSiblings(log[k].entry)
\* the traversal was started by main
Started ==
  \E m \in 1..Len(console) : console[m].what = "Starting Notion folder sync."

\* the entries a complete traversal comes to: no part of the path is hidden
\* and every directory above was created and was still a directory when the
\* traversal entered it
Covered(q) ==
  /\ \A n \in 1..Len(q) : q[n][1] # "."
  /\ \A n \in 1..(Len(q) - 1) :
       CreatedOk(SubSeq(q, 1, n)) /\ IsDirOnEntry(SubSeq(q, 1, n))

\* the number of create calls made for q
Creates(q) == Cardinality({k \in 1..Len(log) : IsCreate(k) /\ log[k].entry = q})

\* C19: termination and coverage.  When a traversal that was started has
\* ended, every entry with no hidden part in its path, all of whose
\* directories above were created successfully, has had exactly one create
\* call.
C19_TerminationCoverage ==
  (pc = "exited" /\ Started) =>
    \A q \in tree : Covered(q) => Creates(q) = 1

\* C20: append targets.  Every append call is made for a file, to the id that
\* the last create call before it returned; that create call succeeded and was
\* made for the same file.  No append call goes to the page passed to main or
\* to the page of a directory, and no append call is made for an entry whose
\* create call failed.
C20_AppendTargets ==
  \A j \in 1..Len(log) :
    IsAppend(j) =>
      LET C == {k \in 1..(j - 1) : IsCreate(k)}
      IN  /\ C # {}
          /\ LET c == CHOOSE k \in C : \A m \in C : m <= k
             IN  /\ log[c].ok
                 /\ log[c].entry = log[j].entry
                 /\ log[j].parent = log[c].id
          /\ IsFile(log[j].entry)
          /\ log[j].parent # root_page_id
          /\ \A k \in 1..Len(log) :
               (IsCreate(k) /\ log[k].ok /\ IsDirectory(log[k].entry)) =>
                 log[j].parent # log[k].id
          /\ \A k \in 1..Len(log) :
               (IsCreate(k) /\ ~log[k].ok) => log[k].entry # log[j].entry

\* blocks were appended to the page of a file in a directory, after the create
\* call for another leaf had failed
C20_Witness ==
  \E i, j \in 1..Len(log) :
    /\ i < j
    /\ IsCreate(i) /\ ~log[i].ok /\ IsFile(log[i].entry)
    /\ IsAppend(j) /\ Len(log[j].entry) = 2 /\ log[j].parent >= 2
====
